---- MODULE Spec2Model ----
(***************************************************************************)
(* A model of util/builddocs.py: the documentation build script.           *)
(*                                                                         *)
(* Text is a sequence of tokens.  "LF", "CR" and "FF" are the characters   *)
(* '\n', '\r' and '\f'; "O" is the text  <style type="text/css" > ;  "C"   *)
(* is the text  </style> ;  "L" is the text of the <link ...> tag of       *)
(* STYLE; "x" is any other text without a line boundary.                   *)
(*                                                                         *)
(* A path is a sequence of components and a component is a sequence of     *)
(* name tokens, so that  collections/foo/bar.nim  is                       *)
(* << <<"collections">>, <<"foo">>, <<"bar", ".nim">> >>.                  *)
(***************************************************************************)
EXTENDS Integers, Sequences, FiniteSets, TLC

VARIABLES
    \* the run of the script
    pc,         \* position of the script
    err,        \* the exception that ended the run, "none" while there is none
    run,        \* number of the current run of the script on this file system
    dirs,       \* file system: the set of paths that are directories
    files,      \* file system: path of every regular file |-> its content
    nim_files,  \* the list nim_files
    todo,       \* what the os.walk in progress has still to yield
    idx,        \* index into nim_files of the loop of lines 22-27
    log,        \* history: what this run did, in order
    after1,     \* history: the regular files as the first run left them
    \* one call of postprocess_html
    data,       \* the argument
    lines,      \* data.splitlines()
    pos,        \* index of the next line the loop reads
    out,        \* the list out
    css,        \* the flag css
    result,     \* the returned string
    ppc         \* "loop" or "returned"

vars == <<pc, err, run, dirs, files, nim_files, todo, idx, log, after1,
          data, lines, pos, out, css, result, ppc>>

runVars == <<pc, err, run, dirs, files, nim_files, todo, idx, log, after1>>

callVars == <<data, lines, pos, out, css, result, ppc>>

----------------------------------------------------------------------------
(* Bounds *)

MaxLen == 4

MaxLines == 5

MaxSrcLen == 2

MaxHtmlLen == 3

MaxRuns == 2

----------------------------------------------------------------------------
(* Text *)

LF == "LF"

CR == "CR"

FF == "FF"

\* the characters str.splitlines treats as line boundaries that the model has
LineBoundaries == {LF, CR, FF}

OpenTag == <<"O">>

CloseTag == <<"C">>

STYLE == <<LF, "L", LF>>

SeqsUpTo(S, n) == UNION {[1..k -> S] : k \in 0..n}

RECURSIVE SplitFrom(_, _, _)
SplitFrom(s, i, cur) ==
    IF i > Len(s)
    THEN IF cur = <<>> THEN <<>> ELSE <<cur>>
    ELSE IF s[i] \in LineBoundaries
         THEN LET n == IF s[i] = CR /\ i < Len(s) /\ s[i + 1] = LF THEN 2 ELSE 1
              IN  <<cur>> \o SplitFrom(s, i + n, <<>>)
         ELSE SplitFrom(s, i + 1, Append(cur, s[i]))

splitlines(s) == SplitFrom(s, 1, <<>>)

RECURSIVE join(_, _)
join(sep, ls) ==
    IF ls = <<>> THEN <<>>
    ELSE IF Len(ls) = 1 THEN ls[1]
    ELSE ls[1] \o sep \o join(sep, Tail(ls))

\* mutant of ProcessLine: the last test reads  if line and not css
ProcessLineSkipsEmpty(st, line) ==
    LET s1 == IF line = OpenTag
              THEN [out |-> Append(st.out, STYLE), css |-> TRUE]
              ELSE st
        s2 == IF line = CloseTag THEN [s1 EXCEPT !.css = FALSE] ELSE s1
    IN  IF line # <<>> /\ ~s2.css
        THEN [s2 EXCEPT !.out = Append(s2.out, line)] ELSE s2

\* the body of the loop of postprocess_html on one line
ProcessLine(st, line) ==
    LET s1 == IF line = OpenTag
              THEN [out |-> Append(st.out, STYLE), css |-> TRUE]
              ELSE st
        s2 == IF line = CloseTag THEN [s1 EXCEPT !.css = FALSE] ELSE s1
    IN  IF ~s2.css THEN [s2 EXCEPT !.out = Append(s2.out, line)] ELSE s2

RECURSIVE RunLoop(_, _)
RunLoop(st, ls) ==
    IF ls = <<>> THEN st ELSE RunLoop(ProcessLine(st, Head(ls)), Tail(ls))

postprocess_html(s) ==
    join(<<LF>>, RunLoop([out |-> <<>>, css |-> FALSE], splitlines(s)).out)

----------------------------------------------------------------------------
(* One call of postprocess_html, line by line *)

TextChars == {"x", "O", "C", LF, CR, FF}

LineTexts == {<<>>, <<"x">>, OpenTag, CloseTag}

Terminators == {<<LF>>, <<CR>>, <<CR, LF>>, <<FF>>}

\* every text of at most MaxLen characters
CharInputs == SeqsUpTo(TextChars, MaxLen)

\* texts of at most MaxLines lines with one line terminator throughout
LineInputs ==
    {join(t, ls) \o e : ls \in SeqsUpTo(LineTexts, MaxLines),
                        t \in Terminators, e \in {<<>>, <<LF>>}}

Inputs == CharInputs \cup LineInputs

IdleCall ==
    /\ data = <<>>
    /\ lines = <<>>
    /\ pos = 1
    /\ out = <<>>
    /\ css = FALSE
    /\ result = <<>>
    /\ ppc = "idle"

IdleRun ==
    /\ pc = "idle"
    /\ err = "none"
    /\ run = 1
    /\ dirs = {}
    /\ files = <<>>
    /\ nim_files = <<>>
    /\ todo = <<>>
    /\ idx = 1
    /\ log = <<>>
    /\ after1 = <<>>

CallInit ==
    /\ data \in Inputs
    /\ lines = splitlines(data)
    /\ pos = 1
    /\ out = <<>>
    /\ css = FALSE
    /\ result = <<>>
    /\ ppc = "loop"
    /\ IdleRun

LoopStep ==
    /\ ppc = "loop"
    /\ pos <= Len(lines)
    /\ LET st == ProcessLine([out |-> out, css |-> css], lines[pos])
       IN  /\ out' = st.out
           /\ css' = st.css
    /\ pos' = pos + 1
    /\ UNCHANGED <<data, lines, result, ppc>>
    /\ UNCHANGED runVars

Return ==
    /\ ppc = "loop"
    /\ pos > Len(lines)
    /\ result' = join(<<LF>>, out)
    /\ ppc' = "returned"
    /\ UNCHANGED <<data, lines, pos, out, css>>
    /\ UNCHANGED runVars

CallNext == LoopStep \/ Return

SpecCall == CallInit /\ [][CallNext]_vars

----------------------------------------------------------------------------
(* Paths *)

Doc == << <<"doc">> >>

DocApi == << <<"doc">>, <<"api">> >>

Root == << <<"collections">> >>

Foo == Append(Root, <<"foo">>)

Sub == Append(Foo, <<"sub">>)

ANim == Append(Root, <<"a", ".nim">>)

BarNim == Append(Foo, <<"bar", ".nim">>)

OldBak == Append(Foo, <<"old", ".nim", ".bak">>)

IndexRst == Append(Doc, <<"index", ".rst">>)

LockRst == Append(Doc, <<".", "#", "index", ".rst">>)

StaticHtml == Append(Doc, <<"static", ".html">>)

ParentOf(p) == SubSeq(p, 1, Len(p) - 1)

\* os.path.join(root, name)
join_path(root, name) == Append(root, name)

\* 'doc/api/' + path
Mirror(p) == DocApi \o p

\* name.endswith(ext): the last token of the name is ext
name_endswith(name, ext) == name # <<>> /\ name[Len(name)] = ext

\* path.endswith(ext): the path ends as its last component does
path_endswith(p, ext) == p # <<>> /\ name_endswith(p[Len(p)], ext)

\* '#' in path
HasHash(p) == \E i \in DOMAIN p : \E j \in DOMAIN p[i] : p[i][j] = "#"

\* 'doc/api/' in path
HasDocApi(p) ==
    \E i \in 1..(Len(p) - 2) :
        /\ p[i] # <<>>
        /\ p[i][Len(p[i])] = "doc"
        /\ p[i + 1] = <<"api">>

\* the path with its extension replaced
WithExt(p, ext) ==
    [p EXCEPT ![Len(p)] = Append(SubSeq(@, 1, Len(@) - 1), ext)]

\* the order in which a directory is enumerated: some fixed order
RECURSIVE Listing(_)
Listing(S) ==
    IF S = {} THEN <<>>
    ELSE LET x == CHOOSE y \in S : TRUE IN <<x>> \o Listing(S \ {x})

----------------------------------------------------------------------------
(* The file system and the external programs *)

\* os.linesep of the platform the script runs on
linesep == <<LF>>

\* open(path, 'r').read(): universal newlines, '\r\n' and '\r' are read as '\n'
RECURSIVE TextRead(_)
TextRead(s) ==
    IF s = <<>> THEN <<>>
    ELSE IF s[1] = CR
         THEN IF Len(s) > 1 /\ s[2] = LF
              THEN <<LF>> \o TextRead(SubSeq(s, 3, Len(s)))
              ELSE <<LF>> \o TextRead(Tail(s))
         ELSE <<s[1]>> \o TextRead(Tail(s))

\* open(path, 'w').write(s): '\n' is written as os.linesep
RECURSIVE TextWrite(_)
TextWrite(s) ==
    IF s = <<>> THEN <<>>
    ELSE (IF s[1] = LF THEN linesep ELSE <<s[1]>>) \o TextWrite(Tail(s))

\* os.path.exists(p)
exists(p, ds, fs) == p \in ds \/ p \in DOMAIN fs

\* os.mkdir(p)
mkdir(p, ds, fs) ==
    IF exists(p, ds, fs)
    THEN [err |-> "FileExistsError", dirs |-> ds, made |-> FALSE]
    ELSE IF ParentOf(p) \notin ds
         THEN [err |-> "FileNotFoundError", dirs |-> ds, made |-> FALSE]
         ELSE [err |-> "none", dirs |-> ds \cup {p}, made |-> TRUE]

\* if not os.path.exists(p): os.mkdir(p)
EnsureDir(p, ds, fs) ==
    IF ~exists(p, ds, fs)
    THEN mkdir(p, ds, fs)
    ELSE [err |-> "none", dirs |-> ds, made |-> FALSE]

\* mutant of MirrorDir: os.mkdir(new_dir) without the test of os.path.exists
MirrorDirNoTest(root, ds, fs) == mkdir(Mirror(root), ds, fs)

\* new_dir = 'doc/api/' + root; if not os.path.exists(new_dir): os.mkdir(new_dir)
MirrorDir(root, ds, fs) == EnsureDir(Mirror(root), ds, fs)

\* what os.scandir(top) raises
scandir_error(top, ds) == IF top \in ds THEN "none" ELSE "FileNotFoundError"

\* mutant of os_walk: the error of scandir is raised
os_walk_raising(top, ds) ==
    [err |-> scandir_error(top, ds),
     first |-> IF scandir_error(top, ds) = "none" THEN <<top>> ELSE <<>>]

\* os.walk(top), called without onerror: an error of scandir is dropped and
\* the walk of that directory yields nothing
os_walk(top, ds) ==
    [err |-> "none",
     first |-> IF scandir_error(top, ds) = "none" THEN <<top>> ELSE <<>>]

SubDirs(d, ds) == {p \in ds : p # <<>> /\ ParentOf(p) = d}

FilesIn(d, fs) == {p \in DOMAIN fs : ParentOf(p) = d}

\* the files under top, in the order os.walk yields them (top down)
RECURSIVE WalkFiles(_, _, _)
WalkFiles(top, ds, fs) ==
    LET subs == Listing(SubDirs(top, ds))
        Below[i \in 0..Len(subs)] ==
            IF i = 0 THEN <<>> ELSE Below[i - 1] \o WalkFiles(subs[i], ds, fs)
    IN  Listing(FilesIn(top, fs)) \o Below[Len(subs)]

\* exit codes a subprocess can return
ExitCodes == {0, 1}

\* mutant of check_call: subprocess.call, the exit code is not looked at
call_unchecked(code) == "none"

\* what subprocess.check_call raises for an exit code
check_call(code) == IF code # 0 THEN "CalledProcessError" ELSE "none"

\* the page nim doc writes for a source file, and its place
ApiPage == <<"O", LF, "x", LF, "C", LF>>

\* the page nim rst2html writes for a markup file: it embeds a style block
RstPage == <<"x", LF, "O", LF, "x", LF, "C", LF, "x", LF>>

Entry(op, path, code, made) ==
    [op |-> op, path |-> path, code |-> code, made |-> made]

----------------------------------------------------------------------------
(* The script *)

\* the files of the input tree that can hold any text
SrcContents == SeqsUpTo({"x", CR, LF}, MaxSrcLen)

HtmlContents == SeqsUpTo({"x", LF, "O"}, MaxHtmlLen)

\* the output directories a run can find in place: none, or doc, or doc and
\* doc/api, ... each with all its parents
OutChain == <<Doc, DocApi, Mirror(Root), Mirror(Foo), Mirror(Sub)>>

SrcChain == <<Root, Foo, Sub>>

Init ==
    /\ pc = "start"
    /\ err = "none"
    /\ run = 1
    /\ \E n \in 0..Len(SrcChain), m \in 0..Len(OutChain) :
         dirs = {SrcChain[i] : i \in 1..n} \cup {OutChain[i] : i \in 1..m}
    /\ \E a \in SrcContents, h \in HtmlContents, hasA \in BOOLEAN :
         /\ a = <<"x">> \/ h = <<"x", LF>>
         /\ files =
               [p \in (IF Root \in dirs /\ hasA THEN {ANim} ELSE {})
                      \cup (IF Foo \in dirs THEN {BarNim, OldBak} ELSE {})
                      \cup (IF Doc \in dirs
                            THEN {IndexRst, LockRst, StaticHtml} ELSE {})
                |-> IF p = ANim THEN a
                    ELSE IF p = StaticHtml THEN h
                    ELSE <<"x", LF>>]
    /\ nim_files = <<>>
    /\ todo = <<>>
    /\ idx = 1
    /\ log = <<>>
    /\ after1 = <<>>
    /\ IdleCall

\* lines 9-10, and the call of os.walk of line 12
MakeOutputRoot ==
    /\ pc = "start"
    /\ LET e == EnsureDir(DocApi, dirs, files)
           w == os_walk(Root, e.dirs)
       IN  /\ dirs' = e.dirs
           /\ log' = Append(log, Entry("mkdir", DocApi, 0, e.made))
           /\ IF e.err # "none"
              THEN pc' = "failed" /\ err' = e.err /\ todo' = <<>>
              ELSE IF w.err # "none"
                   THEN pc' = "failed" /\ err' = w.err /\ todo' = <<>>
                   ELSE pc' = "collect" /\ err' = err /\ todo' = w.first
    /\ UNCHANGED <<run, files, nim_files, idx, after1>>
    /\ UNCHANGED callVars

\* lines 12-20, one directory of the walk
CollectDir ==
    /\ pc = "collect"
    /\ todo # <<>>
    /\ LET root == Head(todo)
           e == MirrorDir(root, dirs, files)
           names == Listing({p[Len(p)] : p \in FilesIn(root, files)})
           nims == SelectSeq(names, LAMBDA name : name_endswith(name, ".nim"))
           found == [k \in 1..Len(nims) |-> join_path(root, nims[k])]
       IN  /\ dirs' = e.dirs
           /\ log' = Append(log, Entry("visit", root, 0, e.made))
           /\ IF e.err # "none"
              THEN /\ pc' = "failed"
                   /\ err' = e.err
                   /\ UNCHANGED <<nim_files, todo>>
              ELSE /\ nim_files' = nim_files \o found
                   /\ todo' = Listing(SubDirs(root, dirs)) \o Tail(todo)
                   /\ UNCHANGED <<pc, err>>
    /\ UNCHANGED <<run, files, idx, after1>>
    /\ UNCHANGED callVars

\* the walk of line 12 is over
CollectDone ==
    /\ pc = "collect"
    /\ todo = <<>>
    /\ pc' = "export"
    /\ idx' = 1
    /\ UNCHANGED <<err, run, dirs, files, nim_files, todo, log, after1>>
    /\ UNCHANGED callVars

\* mutant of CompilerArg: nim doc is given path, not new_file
CompilerArgSource(path) == path

\* the argument nim doc gets for source file path: new_file
CompilerArg(path) == Mirror(path)

\* lines 22-25: the copy of one source file
ExportFile ==
    /\ pc = "export"
    /\ idx <= Len(nim_files)
    /\ LET path == nim_files[idx]
           new_file == Mirror(path)
       IN  IF ParentOf(new_file) \notin dirs
           THEN /\ pc' = "failed"
                /\ err' = "FileNotFoundError"
                /\ UNCHANGED <<files, log>>
           ELSE /\ files' = (new_file :> TextWrite(TextRead(files[path]))) @@ files
                /\ log' = Append(log, Entry("export", new_file, 0, FALSE))
                /\ pc' = "compile"
                /\ UNCHANGED err
    /\ UNCHANGED <<run, dirs, nim_files, todo, idx, after1>>
    /\ UNCHANGED callVars

\* line 27: subprocess.check_call of nim doc on the copy
CompileFile ==
    /\ pc = "compile"
    /\ \E code \in ExitCodes :
         LET arg == CompilerArg(nim_files[idx])
         IN  /\ log' = Append(log, Entry("nimdoc", arg, code, FALSE))
             /\ IF check_call(code) # "none"
                THEN /\ pc' = "failed"
                     /\ err' = check_call(code)
                     /\ UNCHANGED <<files, idx>>
                ELSE /\ files' = (WithExt(arg, ".html") :> ApiPage) @@ files
                     /\ idx' = idx + 1
                     /\ pc' = "export"
                     /\ UNCHANGED err
    /\ UNCHANGED <<run, dirs, nim_files, todo, after1>>
    /\ UNCHANGED callVars

\* the loop of line 22 is over; the call of os.walk of line 29
ExportDone ==
    /\ pc = "export"
    /\ idx > Len(nim_files)
    /\ pc' = "markup"
    /\ todo' = WalkFiles(Doc, dirs, files)
    /\ UNCHANGED <<err, run, dirs, files, nim_files, idx, log, after1>>
    /\ UNCHANGED callVars

\* mutant of IsMarkup: the test of '#' is left out
IsMarkupAnyRst(path) == path_endswith(path, ".rst")

\* line 33
IsMarkup(path) == path_endswith(path, ".rst") /\ ~HasHash(path)

\* lines 29-34, one file of the walk
MarkupFile ==
    /\ pc = "markup"
    /\ todo # <<>>
    /\ LET path == Head(todo)
       IN  IF ~IsMarkup(path)
           THEN /\ todo' = Tail(todo)
                /\ UNCHANGED <<pc, err, files, log>>
           ELSE \E code \in ExitCodes :
                  /\ log' = Append(log, Entry("rst2html", path, code, FALSE))
                  /\ IF check_call(code) # "none"
                     THEN /\ pc' = "failed"
                          /\ err' = check_call(code)
                          /\ UNCHANGED <<files, todo>>
                     ELSE /\ files' = (WithExt(path, ".html") :> RstPage) @@ files
                          /\ todo' = Tail(todo)
                          /\ UNCHANGED <<pc, err>>
    /\ UNCHANGED <<run, dirs, nim_files, idx, after1>>
    /\ UNCHANGED callVars

\* the walk of line 29 is over; the call of os.walk of line 53
MarkupDone ==
    /\ pc = "markup"
    /\ todo = <<>>
    /\ pc' = "post"
    /\ todo' = WalkFiles(Doc, dirs, files)
    /\ UNCHANGED <<err, run, dirs, files, nim_files, idx, log, after1>>
    /\ UNCHANGED callVars

\* line 57
IsPage(path) == path_endswith(path, ".html") /\ ~HasDocApi(path)

\* lines 53-60, one file of the walk
PostFile ==
    /\ pc = "post"
    /\ todo # <<>>
    /\ LET path == Head(todo)
       IN  IF ~IsPage(path)
           THEN UNCHANGED <<files, log>>
           ELSE LET html == postprocess_html(TextRead(files[path]))
                IN  /\ files' = (path :> TextWrite(html)) @@ files
                    /\ log' = Append(log, Entry("post", path, 0, FALSE))
    /\ todo' = Tail(todo)
    /\ UNCHANGED <<pc, err, run, dirs, nim_files, idx, after1>>
    /\ UNCHANGED callVars

\* the walk of line 53 is over: the script ends
PostDone ==
    /\ pc = "post"
    /\ todo = <<>>
    /\ pc' = "done"
    /\ after1' = IF run = 1 THEN files ELSE after1
    /\ UNCHANGED <<err, run, dirs, files, nim_files, todo, idx, log>>
    /\ UNCHANGED callVars

\* the script is started again on the file system the run before left
Rerun ==
    /\ pc = "done"
    /\ run < MaxRuns
    /\ run' = run + 1
    /\ pc' = "start"
    /\ nim_files' = <<>>
    /\ idx' = 1
    /\ log' = <<>>
    /\ UNCHANGED <<err, dirs, files, todo, after1>>
    /\ UNCHANGED callVars

Next ==
    \/ MakeOutputRoot
    \/ CollectDir
    \/ CollectDone
    \/ ExportFile
    \/ CompileFile
    \/ ExportDone
    \/ MarkupFile
    \/ MarkupDone
    \/ PostFile
    \/ PostDone
    \/ Rerun

Spec == Init /\ [][Next]_vars

----------------------------------------------------------------------------
(* Properties of postprocess_html, under SpecCall *)

NoTagLine(ls) == \A k \in DOMAIN ls : ls[k] # OpenTag /\ ls[k] # CloseTag

OnlyLF(s) == \A k \in DOMAIN s : s[k] \in LineBoundaries => s[k] = LF

OpenAt == {k \in DOMAIN lines : lines[k] = OpenTag}

CloseAt == {k \in DOMAIN lines : lines[k] = CloseTag}

\* C1: a line that is exactly </style> is never appended to out, whatever
\* the flag was when the line was read.
C1_CloseTagNeverEmitted == \A k \in DOMAIN out : out[k] # CloseTag

\* C2: an input with exactly one well-formed style block is returned as the
\* lines before the block, one STYLE snippet, and the lines after the block.
C2_BlockReplacedBySnippet ==
    (ppc = "returned" /\ Cardinality(OpenAt) = 1 /\ Cardinality(CloseAt) = 1) =>
        LET o == CHOOSE k \in OpenAt : TRUE
            c == CHOOSE k \in CloseAt : TRUE
        IN  o < c =>
              result = join(<<LF>>, SubSeq(lines, 1, o - 1) \o <<STYLE>>
                                     \o SubSeq(lines, c + 1, Len(lines)))

\* C6 as stated: an input with no style opening line and no </style> line is
\* returned unchanged, but for a dropped final newline, whatever the input.
C6_UnchangedForEveryInput ==
    (ppc = "returned" /\ NoTagLine(lines)) =>
        (result = data \/ data = result \o <<LF>>)

\* C6 as amended: such an input is returned as its lines, unchanged and in
\* order, joined with '\n'; when '\n' is the only line boundary character in
\* the input, that is the input itself but for a dropped final newline.
C6_LinesRejoined ==
    (ppc = "returned" /\ NoTagLine(lines)) =>
        /\ result = join(<<LF>>, lines)
        /\ OnlyLF(data) => (result = data \/ data = result \o <<LF>>)

C6_Witness ==
    /\ ppc = "returned"
    /\ NoTagLine(lines)
    /\ OnlyLF(data)
    /\ Len(lines) >= 2
    /\ data = result \o <<LF>>

----------------------------------------------------------------------------
(* Properties of a run of the script, under Spec *)

Ops(o) == {k \in DOMAIN log : log[k].op = o}

Before(a, b) == \A i \in Ops(a), j \in Ops(b) : i < j

SrcDirs == {p \in dirs : p[1] = <<"collections">>}

SrcFiles == {p \in DOMAIN files : p[1] = <<"collections">>}

\* C3: a subprocess that exits with a non-zero code is the last thing the
\* run does: nothing is exported, compiled, converted or post-processed after
\* it, and it is not invoked again.
C3_FailFast ==
    \A k \in DOMAIN log :
        log[k].code # 0 => (k = Len(log) /\ pc = "failed")

C3_Witness ==
    /\ pc = "failed"
    /\ err = "CalledProcessError"
    /\ log[Len(log)].op = "nimdoc"
    /\ idx < Len(nim_files)
    /\ Mirror(nim_files[idx + 1]) \notin DOMAIN files

\* C4 as stated: with the scanned root missing the run stops in the
\* Collector, and no later stage does anything.
C4_MissingRootStopsRun ==
    Root \notin dirs =>
        /\ pc # "done"
        /\ Ops("rst2html") = {}
        /\ Ops("post") = {}

\* C4 as amended: a missing root is walked as an empty tree: nothing is
\* mirrored, collected, exported or compiled, and the run goes on to the
\* later stages; the Collector fails neither for a missing nor for an empty
\* root, the only missing path that stops the run is the directory doc.
C4_MissingRootIsEmptyWalk ==
    /\ err \in {"none", "FileNotFoundError", "CalledProcessError"}
    /\ err = "FileNotFoundError" => Doc \notin dirs
    /\ err = "CalledProcessError" =>
          log[Len(log)].op \in {"nimdoc", "rst2html"}
    /\ Root \notin dirs =>
          /\ nim_files = <<>>
          /\ Ops("visit") = {} /\ Ops("export") = {} /\ Ops("nimdoc") = {}
          /\ err = "CalledProcessError" => log[Len(log)].op = "rst2html"

C4_Witness ==
    /\ Root \notin dirs
    /\ pc = "done"
    /\ Ops("rst2html") # {}
    /\ Ops("post") # {}

\* C5: after a run without failure every .nim file under the root has a
\* copy of exactly its content at doc/api/ + path, compiled exactly once,
\* and no other file is exported or compiled.
C5_ExportedCopyIsExact ==
    pc = "done" =>
        \A p \in SrcFiles :
            IF name_endswith(p[Len(p)], ".nim")
            THEN /\ Mirror(p) \in DOMAIN files
                 /\ files[Mirror(p)] = files[p]
                 /\ Cardinality({k \in Ops("nimdoc") : log[k].path = Mirror(p)}) = 1
            ELSE /\ Mirror(p) \notin DOMAIN files
                 /\ \A k \in Ops("nimdoc") : log[k].path # Mirror(p)

\* C7: a second run on the unchanged input tree leaves every file as the
\* first run left it.
C7_SecondRunChangesNothing ==
    (run >= 2 /\ pc = "done") => files = after1

\* C8 as stated: the Collector is over before the first export, and every
\* export is over before the first invocation of the compiler.
C8_ExportsBeforeCompiles ==
    /\ Before("visit", "export")
    /\ Before("export", "nimdoc")

\* C8 as amended: the Collector is over before the first export; export and
\* compilation alternate, each file being written right before the compiler
\* is invoked on it, so that a later file is exported after an earlier
\* invocation.
C8_ExportThenCompilePerFile ==
    /\ Before("visit", "export")
    /\ \A k \in Ops("nimdoc") :
          k > 1 /\ log[k - 1].op = "export" /\ log[k - 1].path = log[k].path
    /\ \A k \in Ops("export") :
          IF k = Len(log) THEN pc = "compile" ELSE log[k + 1].op = "nimdoc"

C8_Witness ==
    \E k \in Ops("nimdoc") : k < Len(log) /\ log[k + 1].op = "export"

\* C9: when a file is written every directory of the input tree has its
\* directory under doc/api; a directory is made only when its parent is
\* there, and mirroring a directory that is there already changes nothing
\* and raises nothing.
C9_MirroredBeforeWritten ==
    [][/\ files' # files => \A d \in SrcDirs : Mirror(d) \in dirs
       /\ \A p \in dirs' \ dirs : ParentOf(p) \in dirs
       /\ (pc = "collect" /\ todo # <<>> /\ Mirror(Head(todo)) \in dirs) =>
             (dirs' = dirs /\ err' = "none" /\ pc' = "collect")]_vars

C9_Witness ==
    /\ \E k \in Ops("visit") : ~log[k].made
    /\ \E k \in Ops("visit") : log[k].made
    /\ Ops("export") # {}

\* C10: every invocation of nim doc precedes the first rst2html, every
\* rst2html precedes the first post-processed page, and rst2html is given
\* only paths that end with .rst and hold no '#'.
C10_StagesInOrder ==
    /\ Before("nimdoc", "rst2html")
    /\ Before("rst2html", "post")
    /\ Before("nimdoc", "post")
    /\ \A k \in Ops("rst2html") :
          path_endswith(log[k].path, ".rst") /\ ~HasHash(log[k].path)

C10_Witness ==
    /\ Ops("nimdoc") # {}
    /\ Ops("rst2html") # {}
    /\ Ops("post") # {}

====
